---------------------------- MODULE Spec2Model ----------------------------
(***************************************************************************)
(* Model of the SDMMC-from-SPI decoder of src/sdmmc_from_spi.py: the bit   *)
(* codec, the command table, the frame interpreters and SdioState.add_byte.*)
(*                                                                         *)
(* Encodings.  Bits are 0/1 (Python's False/True).  Python's None is the   *)
(* integer None (-1): response kinds are 1..5 and times are >= 0.  A bit   *)
(* window set to None is the one-element sequence NoBits.  A description   *)
(* (the "info" string) is the sequence of the pieces the code concatenates,*)
(* each piece a pair <<format, argument>>; the piece's text is the format  *)
(* with its %d / %x conversion applied to the argument (the 32-bit argument*)
(* of ", arg:%d" is a pair, see wide_value_from_bits).  Times are exact    *)
(* integers in a unit in which every byte lasts a multiple of 15 units, so *)
(* that (end - start) / 7.5 and half of it are integers; the rounding of   *)
(* Python's floats is not modelled.                                        *)
(***************************************************************************)
EXTENDS Integers, Sequences, FiniteSets, TLC

\* Python's None.
None == -1

\* self.command_bits = None (line 461): a cleared window.
NoBits == <<None>>

\* Python's truth value of the bit window: None and [] are both false.
Falsy(bits) == bits = NoBits \/ bits = <<>>

\* The number of bits a window holds (a cleared window holds none).
BitCount(bits) == IF bits = NoBits THEN 0 ELSE Len(bits)

\* A piece of a description: a format and its argument (None: no conversion).
Piece(fmt, arg) == <<fmt, arg>>

Lit(text) == Piece(text, None)

--------------------------------------------------------------------------
(* The tables, lines 24-103 *)

CURRENT_STATE ==
    (0 :> "IDLE") @@ (1 :> "READY") @@ (2 :> "IDENTIFICATION") @@
    (3 :> "STANDBY") @@ (4 :> "TRANSFER") @@ (5 :> "DATA") @@
    (6 :> "RECEIVE") @@ (7 :> "PROGRAMMING") @@ (8 :> "DISCONNECT") @@
    (9 :> "BUS TEST") @@ (10 :> "SLEEP")

COMMAND_INFO ==
    (0 :> <<"GO_IDLE_STATE", None>>) @@ (1 :> <<"SEND_OP_COND", 3>>) @@
    (2 :> <<"ALL_SEND_CID", 2>>) @@ (3 :> <<"SET_RELATIVE_ADDR", 1>>) @@
    (4 :> <<"SET_DSR", None>>) @@ (5 :> <<"SLEEP_AWAKE", 1>>) @@
    (6 :> <<"SWITCH", 1>>) @@ (7 :> <<"SELECT_CARD", 1>>) @@
    (8 :> <<"SEND_EXT_CSD", 1>>) @@ (9 :> <<"SEND_CSD", 2>>) @@
    (10 :> <<"SEND_CID", 2>>) @@ (11 :> <<"obsolete", None>>) @@
    (12 :> <<"STOP_TRANSMISSION", 1>>) @@ (13 :> <<"SEND_STATUS", 1>>) @@
    (14 :> <<"BUSTEST_R", 1>>) @@ (15 :> <<"GO_INACTIVE_STATE", None>>) @@
    (19 :> <<"BUSTEST_W", 1>>) @@
    (16 :> <<"SET_BLOCKLEN", 1>>) @@ (17 :> <<"READ_SINGLE_BLOCK", 1>>) @@
    (18 :> <<"READ_MULTIPLE_BLOCK", 1>>) @@ (21 :> <<"SEND_TUNING_BLOCK", 1>>) @@
    (20 :> <<"obsolete", None>>) @@ (22 :> <<"reserved", None>>) @@
    (23 :> <<"SET_BLOCK_COUNT", 1>>) @@ (24 :> <<"WRITE_BLOCK", 1>>) @@
    (25 :> <<"WRITE_MULTIPLE_BLOCK", 1>>) @@ (26 :> <<"PROGRAM_CID", 1>>) @@
    (27 :> <<"PROGRAM_CSD", 1>>) @@ (49 :> <<"SET_TIME", 1>>) @@
    (28 :> <<"SET_WRITE_PROT", 1>>) @@ (29 :> <<"CLR_WRITE_PROT", 1>>) @@
    (30 :> <<"SEND_WRITE_PROT", 1>>) @@ (31 :> <<"SEND_WRITE_PROT_TYPE", 1>>) @@
    (35 :> <<"ERASE_GROUP_START", 1>>) @@ (36 :> <<"ERASE_GROUP_END", 1>>) @@
    (38 :> <<"ERASE", 1>>) @@
    (39 :> <<"FAST_IO", 4>>) @@ (40 :> <<"GO_IRQ_STATE", 5>>) @@
    (42 :> <<"LOCK_UNLOCK", 1>>) @@
    (55 :> <<"APP_CMD", 1>>) @@ (56 :> <<"GEN_CMD", 1>>) @@
    (52 :> <<"IO_RW_DIRECT", 5>>) @@ (53 :> <<"IO_RW_EXTENDED", 5>>) @@
    (54 :> <<"PROTOCOL_WR", 1>>) @@
    (44 :> <<"QUEUED_TASK_PARAMS", 1>>) @@ (45 :> <<"QUEUED_TASK_ADDRESS", 1>>) @@
    (46 :> <<"EXECUTE_READ_TASK", 1>>) @@ (47 :> <<"EXECUTE_WRITE_TASK", 1>>) @@
    (48 :> <<"CMDQ_TASK_MGMT", 1>>)

get_response_length_wrong_kind(resp) == IF resp = 5 THEN 136 ELSE 48

get_response_length(resp) == IF resp = 2 THEN 136 ELSE 48

get_command_name(cmd) ==
    IF cmd \in DOMAIN COMMAND_INFO THEN COMMAND_INFO[cmd][1] ELSE "unknown"

get_command_response(cmd) ==
    IF cmd \in DOMAIN COMMAND_INFO THEN COMMAND_INFO[cmd][2] ELSE None

--------------------------------------------------------------------------
(* The codec, lines 125-137 *)

\* The masks bits_from_byte tests, most significant first.
Masks == <<128, 64, 32, 16, 8, 4, 2, 1>>

bits_from_byte_lsb_first(value) ==
    [i \in 1..8 |-> IF (value \div Masks[9 - i]) % 2 = 1 THEN 1 ELSE 0]

\* bool(value & bit) for each mask: a mask is one bit, so value & bit is
\* non-zero exactly when that binary digit of value is 1.
bits_from_byte(value) ==
    [i \in 1..8 |-> IF (value \div Masks[i]) % 2 = 1 THEN 1 ELSE 0]

RECURSIVE value_from_bits_acc(_, _)
value_from_bits_acc(bits, value) ==
    IF bits = <<>> THEN value
    ELSE value_from_bits_acc(Tail(bits),
                             value * 2 + (IF Head(bits) = 1 THEN 1 ELSE 0))

value_from_bits(bits) == value_from_bits_acc(bits, 0)

\* Python's bits[a:b] (0-based, b excluded) of a sequence.
Slice(bits, a, b) == SubSeq(bits, a + 1, b)

\* value_from_bits of 32 bits, which may pass the largest integer TLC
\* represents: the value is hi * 65536 + lo, kept as the pair <<hi, lo>>.
wide_value_from_bits(bits) ==
    <<value_from_bits(Slice(bits, 0, 16)), value_from_bits(Slice(bits, 16, 32))>>

--------------------------------------------------------------------------
(* The frame interpreters, lines 140-300.  A response interpreter is the   *)
(* description it returns; interpret_command, which also writes to the     *)
(* decoder, and InterpretResponse give an outcome: raised is TRUE when the *)
(* interpreter's assert on the frame length fails (the AssertionError      *)
(* leaves add_byte), info is the description otherwise.                    *)

\* The pieces whose text contains "ERROR".
ErrorTexts ==
    {", ERROR", " BLOCK_LEN_ERROR", " ERASE_EQ_ERROR", " COM_CRC_ERROR",
     " CC_ERROR", " ERROR"}

\* "ERROR" in info
ContainsERROR(info) == \E i \in 1..Len(info) : info[i][1] \in ErrorTexts

\* An interpreter's outcome: the AssertionError, or the description and the
\* decoder object as the interpreter leaves it.
Raise(self) == [raised |-> TRUE, info |-> <<>>, self |-> self]

Return(self, info) == [raised |-> FALSE, info |-> info, self |-> self]

\* Lines 152-155.
CommandLabel(command_index) ==
    IF command_index \in DOMAIN COMMAND_INFO
    THEN <<Lit(get_command_name(command_index)), Piece(" (CMD%d)", command_index)>>
    ELSE <<Piece("CMD%d", command_index)>>

\* Lines 156-168: CMD52.
Command52Info(bits) ==
    LET rw_flag == bits[9]
        function == value_from_bits(Slice(bits, 9, 12))
        reg_address == value_from_bits(Slice(bits, 14, 31))
    IN  (IF rw_flag = 1
         THEN <<Piece(": Write: %d", value_from_bits(Slice(bits, 32, 40)))>>
         ELSE <<Lit(": Read")>>)
        \o <<Piece(" Func%d", function), Piece(", Address 0x%x", reg_address)>>

\* Lines 170-187 and 195-196: the text of CMD53.
Command53Info(bits) ==
    LET rw_flag == bits[9]
        function == value_from_bits(Slice(bits, 9, 12))
        block_mode == bits[13]
        op_code == bits[14]
        reg_address == value_from_bits(Slice(bits, 14, 31))
        byte_block_cnt == value_from_bits(Slice(bits, 31, 40))
    IN  <<IF rw_flag = 1 THEN Lit(": Write") ELSE Lit(": Read"),
          Piece(" Func%d", function),
          IF op_code = 1 THEN Piece(", Inc Address 0x%x", reg_address)
                         ELSE Piece(", Fix Address 0x%x", reg_address)>>
        \o (IF block_mode = 1
            THEN <<Lit(", BlockMode:"), Piece(" %d blocks", byte_block_cnt)>>
            ELSE <<Lit(", ByteMode:"), Piece(" %d bytes", byte_block_cnt)>>)

Command53Setup_no_reset(self, bits) ==
    LET byte_block_cnt == value_from_bits(Slice(bits, 31, 40))
    IN  IF bits[13] = 1
        THEN [self EXCEPT !.cdm53_skip_next_bytes = self.cdm53_block_size_length + 2,
                          !.cmd53_blocks_pending = byte_block_cnt]
        ELSE [self EXCEPT !.cdm53_skip_next_bytes = byte_block_cnt + 2,
                          !.cmd53_blocks_pending = 1]

\* Lines 189-193 and 198-202: the transfer CMD53 starts.
Command53Setup(self, bits) ==
    LET byte_block_cnt == value_from_bits(Slice(bits, 31, 40))
    IN  IF bits[13] = 1
        THEN [self EXCEPT !.cdm53_skip_next_bytes = self.cdm53_block_size_length + 2,
                          !.cmd53_blocks_pending = byte_block_cnt,
                          !.cmd53_blocks_received = 0]
        ELSE [self EXCEPT !.cdm53_skip_next_bytes = byte_block_cnt + 2,
                          !.cmd53_blocks_pending = 1,
                          !.cmd53_blocks_received = 0]

interpret_command_marks_default_only(self, bits) ==
    IF Len(bits) # 48 THEN Raise(self)
    ELSE
    LET start_bit == bits[1]
        transmission_bit == bits[2]
        command_index == value_from_bits(Slice(bits, 2, 8))
        argument == wide_value_from_bits(Slice(bits, 8, 40))
        end_bit == value_from_bits(Slice(bits, 47, 48))
        okay == ~(start_bit = 1 \/ transmission_bit # 1 \/ end_bit = 0)
        marker == IF okay THEN <<>> ELSE <<Lit(", ERROR")>>
        body == IF command_index = 52 THEN Command52Info(bits)
                ELSE IF command_index = 53 THEN Command53Info(bits)
                ELSE <<Piece(", arg:%d", argument)>> \o marker
    IN  Return(IF command_index = 53 THEN Command53Setup(self, bits) ELSE self,
               CommandLabel(command_index) \o body)

interpret_command(self, bits) ==
    IF Len(bits) # 48 THEN Raise(self)
    ELSE
    LET start_bit == bits[1]
        transmission_bit == bits[2]
        command_index == value_from_bits(Slice(bits, 2, 8))
        argument == wide_value_from_bits(Slice(bits, 8, 40))
        end_bit == value_from_bits(Slice(bits, 47, 48))
        okay == ~(start_bit = 1 \/ transmission_bit # 1 \/ end_bit = 0)
        body == IF command_index = 52 THEN Command52Info(bits)
                ELSE IF command_index = 53 THEN Command53Info(bits)
                ELSE <<Piece(", arg:%d", argument)>>
        info == CommandLabel(command_index) \o body
                \o (IF okay THEN <<>> ELSE <<Lit(", ERROR")>>)
    IN  Return(IF command_index = 53 THEN Command53Setup(self, bits) ELSE self,
               info)

\* Lines 229-255: the names of the status flags, by index in device_status.
StatusFlags ==
    <<" ADDRESS_OUT_OF_RANGE", " ADDRESS_MISALIGN", " BLOCK_LEN_ERROR",
      " ERASE_EQ_ERROR", " ERASE_PARAM", " WP_VIOLATION", " DEVICE_IS_LOCKED",
      " LOCK_UNLOCK_FAILED", " COM_CRC_ERROR", " ILLEGAL_COMMAND",
      " DEVICE_ECC_FAILED", " CC_ERROR", " ERROR">>

RECURSIVE FlagPieces(_, _)
FlagPieces(device_status, i) ==
    IF i > Len(StatusFlags) THEN <<>>
    ELSE (IF device_status[i] = 1 THEN <<Lit(StatusFlags[i])>> ELSE <<>>)
         \o FlagPieces(device_status, i + 1)

interpret_response1_status_from_bit_9(bits) ==
    LET device_status == Slice(bits, 9, 41)
        current_state == value_from_bits(Slice(device_status, 19, 23))
        state_info == IF current_state \in DOMAIN CURRENT_STATE
                      THEN Lit(CURRENT_STATE[current_state])
                      ELSE Piece("UNKNOWN (%d)", current_state)
    IN  <<Lit("R1, "), state_info>> \o FlagPieces(device_status, 1)

interpret_response1(bits) ==
    LET device_status == Slice(bits, 8, 40)
        current_state == value_from_bits(Slice(device_status, 19, 23))
        \* okay (lines 213, 220-221, 228) is computed and never read.
        state_info == IF current_state \in DOMAIN CURRENT_STATE
                      THEN Lit(CURRENT_STATE[current_state])
                      ELSE Piece("UNKNOWN (%d)", current_state)
    IN  <<Lit("R1, "), state_info>> \o FlagPieces(device_status, 1)

\* Lines 259-262; the rest of the function is unreachable.
interpret_response2(bits) ==
    <<Lit("R2, CID or CSD")>>

interpret_response3(bits) ==
    LET ocr_register == Slice(bits, 8, 40)
    IN  <<Lit("R3, "), IF ocr_register[1] = 1 THEN Lit("READY") ELSE Lit("BUSY")>>

interpret_response5(bits) == <<Lit("R5")>>

\* The assert of each response interpreter (lines 212, 261, 286): the
\* frame length it requires, None for interpret_response5 and the generic
\* label, which assert nothing.
RequiredLength(this_response_type) ==
    IF this_response_type = 1 \/ this_response_type = None THEN 48
    ELSE IF this_response_type = 2 THEN 136
    ELSE IF this_response_type = 3 THEN 48
    ELSE None

InterpretResponse_unknown_as_kind1(self, this_response_type, bits) ==
    IF RequiredLength(this_response_type) \notin {None, Len(bits)} THEN Raise(self)
    ELSE IF this_response_type = 2 THEN Return(self, interpret_response2(bits))
    ELSE IF this_response_type = 3 THEN Return(self, interpret_response3(bits))
    ELSE IF this_response_type = 5 THEN Return(self, interpret_response5(bits))
    ELSE Return(self, interpret_response1(bits))

\* Lines 444-454: the interpreter of a response, by the kind expected.
InterpretResponse(self, this_response_type, bits) ==
    IF RequiredLength(this_response_type) \notin {None, Len(bits)} THEN Raise(self)
    ELSE IF this_response_type = 1 \/ this_response_type = None
    THEN Return(self, interpret_response1(bits))
    ELSE IF this_response_type = 2 THEN Return(self, interpret_response2(bits))
    ELSE IF this_response_type = 3 THEN Return(self, interpret_response3(bits))
    ELSE IF this_response_type = 5 THEN Return(self, interpret_response5(bits))
    ELSE Return(self, <<Piece("R%s", this_response_type)>>)

--------------------------------------------------------------------------
(* SdioState, lines 302-478 *)

\* SdioState.__init__
SdioState ==
    [command_bits |-> <<>>,
     command_start |-> None,
     debug |-> <<>>,
     first_time |-> None,
     expected_response |-> None,
     expected_response_length |-> 48,
     cdm53_block_size_length |-> 256,
     cdm53_skip_next_bytes |-> 0,
     cmd53_blocks_pending |-> 0,
     cmd53_start_token_received |-> 0,
     cmd53_data_start |-> None,
     cmd53_blocks_received |-> 0]

\* add_byte's "return None".
NoData == [start_time |-> None, end_time |-> None, info |-> <<>>]

\* What a call of add_byte leaves: the decoder object, the value returned,
\* whether an exception left the call instead, and the frame bits it printed
\* (line 432).
Outcome(self, data, bits) ==
    [self |-> self, data |-> data, raised |-> FALSE, bits |-> bits]

Exception(self, bits) ==
    [self |-> self, data |-> NoData, raised |-> TRUE, bits |-> bits]

Cmd53BlockEnd_clears_always(self, end_time) ==
    LET counted == [self EXCEPT !.cmd53_blocks_pending = @ - 1,
                                !.cmd53_blocks_received = @ + 1]
    IN  Outcome([counted EXCEPT !.cdm53_skip_next_bytes = 0,
                                !.cmd53_start_token_received = 0],
                [start_time |-> self.cmd53_data_start,
                 end_time |-> end_time,
                 info |-> <<Piece("DATA BLOCK %d", counted.cmd53_blocks_received)>>],
                <<>>)

Cmd53BlockEnd_keeps_token(self, end_time) ==
    LET counted == [self EXCEPT !.cmd53_blocks_pending = @ - 1,
                                !.cmd53_blocks_received = @ + 1]
        data == [start_time |-> self.cmd53_data_start,
                 end_time |-> end_time,
                 info |-> <<Piece("DATA BLOCK %d", counted.cmd53_blocks_received)>>]
    IN  IF counted.cmd53_blocks_pending = 0
        THEN Outcome([counted EXCEPT !.cdm53_skip_next_bytes = 0,
                                     !.cmd53_start_token_received = 0],
                     data, <<>>)
        ELSE Outcome([counted EXCEPT
                          !.cdm53_skip_next_bytes = self.cdm53_block_size_length + 2],
                     data, <<>>)

\* Lines 366-392: the last byte of a block.
Cmd53BlockEnd(self, end_time) ==
    LET counted == [self EXCEPT !.cmd53_blocks_pending = @ - 1,
                                !.cmd53_blocks_received = @ + 1]
        data == [start_time |-> self.cmd53_data_start,
                 end_time |-> end_time,
                 info |-> <<Piece("DATA BLOCK %d", counted.cmd53_blocks_received)>>]
    IN  IF counted.cmd53_blocks_pending = 0
        THEN Outcome([counted EXCEPT !.cdm53_skip_next_bytes = 0,
                                     !.cmd53_start_token_received = 0],
                     data, <<>>)
        ELSE Outcome([counted EXCEPT
                          !.cdm53_skip_next_bytes = self.cdm53_block_size_length + 2,
                          !.cmd53_start_token_received = 0],
                     data, <<>>)

Cmd53Handling_token_resets_window(self, value, start_time, end_time) ==
    IF self.cmd53_start_token_received = 0
    THEN IF value = 252 \/ value = 253
         THEN Outcome([self EXCEPT !.cmd53_start_token_received = 1,
                                   !.cmd53_data_start = end_time,
                                   !.command_bits = <<>>],
                      NoData, <<>>)
         ELSE Outcome(self, NoData, <<>>)
    ELSE IF self.cdm53_skip_next_bytes > 1
         THEN Outcome([self EXCEPT !.cdm53_skip_next_bytes = @ - 1], NoData, <<>>)
         ELSE Cmd53BlockEnd(self, end_time)

Cmd53Handling_token_counts(self, value, start_time, end_time) ==
    IF self.cmd53_start_token_received = 0
    THEN IF value = 252 \/ value = 253
         THEN Outcome([self EXCEPT !.cmd53_start_token_received = 1,
                                   !.cmd53_data_start = end_time,
                                   !.cdm53_skip_next_bytes = @ - 1],
                      NoData, <<>>)
         ELSE Outcome(self, NoData, <<>>)
    ELSE IF self.cdm53_skip_next_bytes > 1
         THEN Outcome([self EXCEPT !.cdm53_skip_next_bytes = @ - 1], NoData, <<>>)
         ELSE Cmd53BlockEnd(self, end_time)

\* Lines 345-392: the CMD53 step, taken when cdm53_skip_next_bytes > 0.
Cmd53Handling(self, value, start_time, end_time) ==
    IF self.cmd53_start_token_received = 0
    THEN IF value = 252 \/ value = 253
         THEN Outcome([self EXCEPT !.cmd53_start_token_received = 1,
                                   !.cmd53_data_start = end_time],
                      NoData, <<>>)
         ELSE Outcome(self, NoData, <<>>)
    ELSE IF self.cdm53_skip_next_bytes > 1
         THEN Outcome([self EXCEPT !.cdm53_skip_next_bytes = @ - 1], NoData, <<>>)
         ELSE Cmd53BlockEnd(self, end_time)

BitLength_times(start_time, end_time) == ((end_time - start_time) * 15) \div 2

\* Line 400: (end_time - start_time) / 7.5
BitLength(start_time, end_time) == (2 * (end_time - start_time)) \div 15

\* The number of 1 bits a sequence starts with.
RECURSIVE LeadingOnes(_)
LeadingOnes(bits) ==
    IF bits = <<>> \/ Head(bits) # 1 THEN 0 ELSE 1 + LeadingOnes(Tail(bits))

\* "while bits[0]: del bits[0]" (lines 411-413, 463-464) on a sequence that
\* holds a 0.
DropLeadingOnes(bits) == SubSeq(bits, LeadingOnes(bits) + 1, Len(bits))

\* all(x for x in bits)
AllOnes(bits) == \A i \in 1..Len(bits) : bits[i] = 1

NewCommand_starts_at_end(self, new_bits, start_time, end_time) ==
    IF AllOnes(new_bits)
    THEN Exception(self, <<>>)
    ELSE Outcome([self EXCEPT
                      !.command_start =
                          end_time + LeadingOnes(new_bits) * BitLength(start_time, end_time),
                      !.command_bits = DropLeadingOnes(new_bits)],
                 NoData, <<>>)

\* Lines 409-416: the first byte of a frame.
NewCommand_keeps_leading_ones(self, new_bits, start_time, end_time) ==
    IF AllOnes(new_bits)
    THEN Exception(self, <<>>)
    ELSE Outcome([self EXCEPT
                      !.command_start =
                          start_time + LeadingOnes(new_bits) * BitLength(start_time, end_time),
                      !.command_bits = new_bits],
                 NoData, <<>>)

NewCommand(self, new_bits, start_time, end_time) ==
    IF AllOnes(new_bits)
    THEN \* new_bits[0] on the emptied list: IndexError
         Exception(self, <<>>)
    ELSE Outcome([self EXCEPT
                      !.command_start =
                          start_time + LeadingOnes(new_bits) * BitLength(start_time, end_time),
                      !.command_bits = DropLeadingOnes(new_bits)],
                 NoData, <<>>)

KeepRemainder_whole_bits(self, this_response_length, start_time, end_time) ==
    LET rest == SubSeq(self.command_bits, this_response_length + 1,
                       Len(self.command_bits))
        kept == DropLeadingOnes(rest)
    IN  IF AllOnes(rest)
        THEN [self EXCEPT !.command_bits = NoBits]
        ELSE [self EXCEPT
                 !.command_bits = kept,
                 !.command_start =
                     end_time - BitLength(start_time, end_time) * Len(kept)]

\* Lines 459-466: what follows the frame in the window.
KeepRemainder(self, this_response_length, start_time, end_time) ==
    LET rest == SubSeq(self.command_bits, this_response_length + 1,
                       Len(self.command_bits))
        kept == DropLeadingOnes(rest)
    IN  IF AllOnes(rest)
        THEN [self EXCEPT !.command_bits = NoBits]
        ELSE [self EXCEPT
                 !.command_bits = kept,
                 !.command_start =
                     end_time - (BitLength(start_time, end_time) * Len(kept)
                                 - BitLength(start_time, end_time) \div 2)]

CompleteFrame_keeps_expected(self, start_time, end_time) ==
    LET this_response_length == self.expected_response_length
        this_response_type == self.expected_response
        command_start == self.command_start
        command_end == end_time - BitLength(start_time, end_time)
                                  * (Len(self.command_bits) - this_response_length)
        bits == SubSeq(self.command_bits, 1, this_response_length)
        transmission_bit == bits[2]
        interpreted ==
            IF transmission_bit = 1
            THEN interpret_command(self, bits)
            ELSE InterpretResponse(self, this_response_type, bits)
        command_index == value_from_bits(Slice(bits, 2, 8))
        expected ==
            IF transmission_bit = 1
            THEN [interpreted.self EXCEPT
                     !.expected_response = get_command_response(command_index),
                     !.expected_response_length =
                         get_response_length(get_command_response(command_index))]
            ELSE interpreted.self
    IN  IF interpreted.raised
        THEN Exception(self, bits)
        ELSE Outcome(KeepRemainder(expected, this_response_length, start_time, end_time),
                     [start_time |-> command_start,
                      end_time |-> command_end,
                      info |-> interpreted.info],
                     bits)

\* Lines 422-478: a complete frame is in the window self.command_bits.
CompleteFrame(self, start_time, end_time) ==
    LET this_response_length == self.expected_response_length
        this_response_type == self.expected_response
        command_start == self.command_start
        command_end == end_time - BitLength(start_time, end_time)
                                  * (Len(self.command_bits) - this_response_length)
        bits == SubSeq(self.command_bits, 1, this_response_length)
        transmission_bit == bits[2]
        interpreted ==
            IF transmission_bit = 1
            THEN interpret_command(self, bits)
            ELSE InterpretResponse(self, this_response_type, bits)
        command_index == value_from_bits(Slice(bits, 2, 8))
        expected ==
            IF transmission_bit = 1
            THEN [interpreted.self EXCEPT
                     !.expected_response = get_command_response(command_index),
                     !.expected_response_length =
                         get_response_length(get_command_response(command_index))]
            ELSE [interpreted.self EXCEPT
                     !.expected_response = None,
                     !.expected_response_length = 48]
    IN  IF interpreted.raised
        THEN Exception(self, bits)
        ELSE Outcome(KeepRemainder(expected, this_response_length, start_time, end_time),
                     [start_time |-> command_start,
                      end_time |-> command_end,
                      info |-> interpreted.info],
                     bits)

Framing_notes_before_idle(self, value, start_time, end_time) ==
    LET noted == [self EXCEPT
                     !.first_time = IF @ = None THEN start_time ELSE @,
                     !.debug = <<start_time, end_time>>]
        new_bits == bits_from_byte(value)
        added == [noted EXCEPT !.command_bits = @ \o new_bits]
    IN  IF value = 255 /\ Falsy(self.command_bits)
        THEN Outcome(noted, NoData, <<>>)
        ELSE IF Falsy(self.command_bits)
        THEN NewCommand(noted, new_bits, start_time, end_time)
        ELSE IF Len(added.command_bits) < added.expected_response_length
        THEN Outcome(added, NoData, <<>>)
        ELSE CompleteFrame(added, start_time, end_time)

\* Lines 394-421: the framing of a byte outside a CMD53 transfer.
Framing(self, value, start_time, end_time) ==
    IF value = 255 /\ Falsy(self.command_bits)
    THEN Outcome(self, NoData, <<>>)
    ELSE LET noted == [self EXCEPT
                          !.first_time = IF @ = None THEN start_time ELSE @,
                          !.debug = <<start_time, end_time>>]
             new_bits == bits_from_byte(value)
             added == [noted EXCEPT !.command_bits = @ \o new_bits]
         IN  IF Falsy(self.command_bits)
             THEN NewCommand(noted, new_bits, start_time, end_time)
             ELSE IF Len(added.command_bits) < added.expected_response_length
             THEN Outcome(added, NoData, <<>>)
             ELSE CompleteFrame(added, start_time, end_time)

\* SdioState.add_byte(value, start_time, end_time), value an int in 0..255.
add_byte(self, value, start_time, end_time) ==
    IF self.cdm53_skip_next_bytes > 0
    THEN Cmd53Handling(self, value, start_time, end_time)
    ELSE Framing(self, value, start_time, end_time)

--------------------------------------------------------------------------
(* The bus: what the capture hands to SdmmcFromSpiAnalyzer.decode, one     *)
(* byte per call (lines 491-496).  The bus carries bursts of bytes: frames *)
(* laid out as interpret_command and interpret_response1 read them (lines  *)
(* 144-149, 214-219), idle fill, and the data blocks of a CMD53 transfer.  *)

\* The n binary digits of v, most significant first.
RECURSIVE BitsOfValue(_, _)
BitsOfValue(v, n) ==
    IF n = 0 THEN <<>> ELSE Append(BitsOfValue(v \div 2, n - 1), v % 2)

Ones(n) == [i \in 1..n |-> 1]

\* start(1) transmit(1) index(6) argument(32) crc7(7) end(1)
FrameBits(start_bit, transmission_bit, index, argument, crc7, end_bit) ==
    <<start_bit, transmission_bit>> \o BitsOfValue(index, 6)
    \o BitsOfValue(argument, 32) \o BitsOfValue(crc7, 7) \o <<end_bit>>

\* The argument of CMD53 (lines 170-175):
\* rw_flag(1) function(3) block_mode(1) op_code(1) address(17) count(9)
Cmd53Argument(function, block_mode, op_code, reg_address, count) ==
    function * 268435456 + block_mode * 134217728 + op_code * 67108864
    + reg_address * 512 + count

\* The status of a kind-1 response with the flags COM_CRC_ERROR (bit 8 of
\* device_status) and ILLEGAL_COMMAND (bit 9) set, in state 4 (TRANSFER).
FlaggedStatus == 8388608 + 4194304 + 4 * 512

\* The bytes a sequence of bits (a multiple of 8) travels as.
RECURSIVE BytesOfBits(_)
BytesOfBits(bits) ==
    IF bits = <<>> THEN <<>>
    ELSE <<value_from_bits(SubSeq(bits, 1, 8))>>
         \o BytesOfBits(SubSeq(bits, 9, Len(bits)))

\* The bursts the bus may carry.
Bursts ==
    {"IDLE", "CMD13", "CMD2", "CMD53_BLOCK_0", "CMD53_BLOCK_2",
     "CMD53_BYTE_0_SHIFTED", "R1_BAD_END", "R1_SHIFTED", "BLOCK", "SHORT_DATA"}

\* The bytes of a burst.
BurstBytes(b) ==
    CASE b = "IDLE" -> <<255>>
      [] b = "CMD13" -> BytesOfBits(FrameBits(0, 1, 13, 0, 0, 1))
      [] b = "CMD2" -> BytesOfBits(FrameBits(0, 1, 2, 0, 0, 1))
      [] b = "CMD53_BLOCK_0" ->
            BytesOfBits(FrameBits(0, 1, 53, Cmd53Argument(1, 1, 1, 16, 0), 0, 1))
      [] b = "CMD53_BLOCK_2" ->
            BytesOfBits(FrameBits(0, 1, 53, Cmd53Argument(1, 1, 1, 16, 2), 0, 1))
      [] b = "CMD53_BYTE_0_SHIFTED" ->
            \* four idle bits, the command, and the first bits of what follows
            BytesOfBits(Ones(4)
                        \o FrameBits(0, 1, 53, Cmd53Argument(1, 0, 0, 16, 0), 0, 1)
                        \o <<1, 0, 0, 1>>)
      [] b = "R1_BAD_END" -> BytesOfBits(FrameBits(0, 0, 13, 2048, 0, 0))
      [] b = "R1_SHIFTED" ->
            BytesOfBits(Ones(3) \o FrameBits(0, 0, 13, FlaggedStatus, 0, 1) \o Ones(5))
      [] b = "BLOCK" -> <<252>> \o [i \in 1..258 |-> 255]
      [] b = "SHORT_DATA" -> <<253, 0, 0>>

\* The bytes of every burst.
Wire == [b \in Bursts |-> BurstBytes(b)]

\* The time a byte of the burst lasts.
BurstByteTime(b) == IF b \in {"R1_BAD_END", "SHORT_DATA"} THEN 30 ELSE 15

\* The silence before the first byte of the burst.
BurstGap(b) == IF b \in {"R1_SHIFTED", "SHORT_DATA", "IDLE"} THEN 15 ELSE 0

\* The number of bursts a run carries.
MaxBursts == 4

--------------------------------------------------------------------------
(* The state *)

VARIABLES
    sdio,       \* the SdioState object of the analyzer (self.state)
    data,       \* what the last add_byte call returned (NoData: None)
    raised,     \* an exception left the last add_byte call
    printed,    \* the frame bits the last call printed
    prev,       \* sdio as it was before the last call
    call,       \* the arguments of the last call
    emitted,    \* the frames returned so far, each with the place of its last byte
    sent,       \* the bursts the bus has carried so far, the current one last
    pos,        \* the number of bytes of the current burst decoded so far
    now,        \* the end_time of the last byte decoded
    arg,        \* the function last called on its own, and its arguments
    ret         \* what that function returned

vars == <<sdio, data, raised, printed, prev, call, emitted, sent, pos, now,
          arg, ret>>

NoCall == [value |-> None, start_time |-> None, end_time |-> None]

\* No function has been called on its own.
NoArg == [fn |-> "", value |-> None, bits |-> <<>>]

NoRet == [value |-> None, bits |-> <<>>, info |-> <<>>, raised |-> FALSE,
          self |-> SdioState]

Init ==
    /\ sdio = SdioState
    /\ data = NoData
    /\ raised = FALSE
    /\ printed = <<>>
    /\ prev = SdioState
    /\ call = NoCall
    /\ emitted = <<>>
    /\ sent = <<>>
    /\ pos = 0
    /\ now = 0
    /\ arg = NoArg
    /\ ret = NoRet

\* Every byte of the current burst has been decoded.
BurstDone == IF sent = <<>> THEN TRUE ELSE pos = Len(Wire[sent[Len(sent)]])

\* The bus starts to carry burst b.
BusTransmit(b) ==
    /\ ~raised
    /\ BurstDone
    /\ Len(sent) < MaxBursts
    /\ sent' = Append(sent, b)
    /\ pos' = 0
    /\ UNCHANGED <<sdio, data, raised, printed, prev, call, emitted, now, arg, ret>>

\* SdmmcFromSpiAnalyzer.decode on the next byte of the burst: add_byte, whose
\* exception ends the analyzer.
Decode ==
    /\ ~raised
    /\ ~BurstDone
    /\ LET b == sent[Len(sent)]
           value == Wire[b][pos + 1]
           start_time == now + (IF pos = 0 THEN BurstGap(b) ELSE 0)
           end_time == start_time + BurstByteTime(b)
           out == add_byte(sdio, value, start_time, end_time)
       IN  /\ sdio' = out.self
           /\ data' = out.data
           /\ raised' = out.raised
           /\ printed' = out.bits
           /\ prev' = sdio
           /\ call' = [value |-> value, start_time |-> start_time, end_time |-> end_time]
           /\ emitted' = IF out.data = NoData THEN emitted
                         ELSE Append(emitted,
                                     [start_time |-> out.data.start_time,
                                      end_time |-> out.data.end_time,
                                      info |-> out.data.info,
                                      burst |-> Len(sent),
                                      pos |-> pos + 1])
           /\ now' = end_time
    /\ pos' = pos + 1
    /\ UNCHANGED <<sent, arg, ret>>

Next == (\E b \in Bursts : BusTransmit(b)) \/ Decode

Spec == Init /\ [][Next]_vars

--------------------------------------------------------------------------
(* The bench: a fresh decoder whose bus carries whole frames, each a       *)
(* record of the fields interpret_command and interpret_response1 read     *)
(* (lines 144-149, 214-219), and the functions of the module called on     *)
(* their own on arguments drawn from bounded sets: a run of the bench is   *)
(* one such call, or frames on the bus.                                    *)

\* A frame: start(1) transmit(1) index(6) argument(32) crc7(7) end(1), the
\* argument as the pair <<high 16 bits, low 16 bits>>; a frame of length 136
\* carries 88 more bits, all 0, between the argument and the crc7.
Frame(start_bit, transmission_bit, index, argument, crc7, end_bit, length) ==
    [start_bit |-> start_bit, transmission_bit |-> transmission_bit,
     index |-> index, argument |-> argument, crc7 |-> crc7,
     end_bit |-> end_bit, length |-> length]

\* The bits of a frame, first bit first.
BitsOfFrame(f) ==
    <<f.start_bit, f.transmission_bit>> \o BitsOfValue(f.index, 6)
    \o BitsOfValue(f.argument[1], 16) \o BitsOfValue(f.argument[2], 16)
    \o [i \in 1..f.length - 48 |-> 0]
    \o BitsOfValue(f.crc7, 7) \o <<f.end_bit>>

\* Command indices: no response kind in the table (0), kinds 3, 2, 1, 4 and
\* 5 (1, 2, 13, 39, 52), the CMD53 transfer (53) and one missing from the
\* table (60).
BenchIndices == {0, 1, 2, 13, 39, 52, 53, 60}

\* Arguments.  As the argument of CMD53: <<0, 0>> and <<32768, 1>> are byte
\* mode with counts 0 and 1, <<2048, 0>>, <<2048, 2>> and <<65535, 65535>>
\* block mode with counts 0, 2 and 511.  As the status of a response:
\* <<0, 2048>> is state 4 with no flag, <<32768, 0>> state 0 with the first
\* flag, <<65535, 65535>> state 15 with every flag.
BenchArguments ==
    {<<0, 0>>, <<0, 2048>>, <<2048, 0>>, <<2048, 2>>, <<32768, 0>>, <<32768, 1>>,
     <<65535, 65535>>}

\* The frames the bus of the bench may carry: their start bit is 0.
BusFrames ==
    {Frame(0, 1, i, <<0, 0>>, 0, 1, 48) : i \in BenchIndices}
    \cup {Frame(0, 1, i, a, 127, 1, 48) :
              i \in {0, 60}, a \in {<<32768, 1>>, <<65535, 65535>>}}
    \cup {Frame(0, 1, i, <<0, 0>>, 0, 0, 48) : i \in {13, 52, 53}}
    \cup {Frame(0, 1, 53, a, 0, 1, 48) :
              a \in {<<32768, 1>>, <<2048, 0>>, <<2048, 2>>, <<65535, 65535>>}}
    \cup {Frame(0, 0, 13, a, 0, e, 48) :
              a \in {<<0, 2048>>, <<32768, 0>>, <<65535, 65535>>}, e \in {0, 1}}
    \cup {Frame(0, 0, 63, <<0, 0>>, 0, 1, 136)}

\* The 48-bit frames interpret_command is called on: every start,
\* transmission and end bit.
CommandFrames ==
    {Frame(s, t, i, a, 0, e, 48) :
        s \in {0, 1}, t \in {0, 1}, i \in BenchIndices, a \in BenchArguments,
        e \in {0, 1}}

\* The states interpret_response1 is called on: IDLE, TRANSFER, SLEEP and
\* two that are not in CURRENT_STATE.
BenchStates == {0, 4, 10, 11, 15}

\* A 48-bit response whose status holds the 13 flags as the binary digits
\* of flags (the first flag the most significant) and the state.
StatusFrame(flags, state) ==
    Frame(0, 0, 13, <<flags * 8, state * 512>>, 0, 1, 48)

\* The time a byte lasts on the bench, and the silence before a frame.
ByteTime == 15

FrameGap == 15

\* The number of frames the bus of the bench carries.
MaxFrames == 2

\* The bytes of every frame of the bus.
FrameWire == [f \in BusFrames |-> BytesOfBits(BitsOfFrame(f))]

\* The bytes of the frame the bus carries.
FrameBytes == IF sent = <<>> THEN <<>> ELSE FrameWire[sent[Len(sent)]]

\* No function has been called on its own and the bus has carried nothing.
CallsEnabled == sent = <<>> /\ arg = NoArg

\* Every byte of the frame has been decoded.
FrameDone == pos = Len(FrameBytes)

\* The bus starts to carry frame f.
FrameTransmit(f) ==
    /\ arg = NoArg
    /\ ~raised
    /\ FrameDone
    /\ Len(sent) < MaxFrames
    /\ sent' = Append(sent, f)
    /\ pos' = 0
    /\ UNCHANGED <<sdio, data, raised, printed, prev, call, emitted, now, arg, ret>>

\* SdmmcFromSpiAnalyzer.decode on the next byte of the frame.
FrameDecode ==
    /\ ~raised
    /\ ~FrameDone
    /\ LET value == FrameBytes[pos + 1]
           start_time == now + (IF pos = 0 THEN FrameGap ELSE 0)
           end_time == start_time + ByteTime
           out == add_byte(sdio, value, start_time, end_time)
       IN  /\ sdio' = out.self
           /\ data' = out.data
           /\ raised' = out.raised
           /\ printed' = out.bits
           /\ prev' = sdio
           /\ call' = [value |-> value, start_time |-> start_time, end_time |-> end_time]
           /\ emitted' = IF out.data = NoData THEN emitted
                         ELSE Append(emitted,
                                     [start_time |-> out.data.start_time,
                                      end_time |-> out.data.end_time,
                                      info |-> out.data.info,
                                      burst |-> Len(sent),
                                      pos |-> pos + 1])
           /\ now' = end_time
    /\ pos' = pos + 1
    /\ UNCHANGED <<sent, arg, ret>>

\* value_from_bits(bits_from_byte(x))
CallCodec(x) ==
    /\ CallsEnabled
    /\ arg' = [fn |-> "value_from_bits(bits_from_byte)", value |-> x, bits |-> <<>>]
    /\ ret' = [NoRet EXCEPT !.bits = bits_from_byte(x),
                            !.value = value_from_bits(bits_from_byte(x))]
    /\ UNCHANGED <<sdio, data, raised, printed, prev, call, emitted, sent, pos, now>>

\* interpret_command(self, bits) on a fresh decoder and the bits of frame f.
CallInterpretCommand(f) ==
    /\ CallsEnabled
    /\ arg' = [fn |-> "interpret_command", value |-> None, bits |-> BitsOfFrame(f)]
    /\ LET out == interpret_command(SdioState, BitsOfFrame(f))
       IN  ret' = [NoRet EXCEPT !.info = out.info, !.raised = out.raised,
                                !.self = out.self]
    /\ UNCHANGED <<sdio, data, raised, printed, prev, call, emitted, sent, pos, now>>

\* interpret_response1(bits) on the bits of frame f.
CallInterpretResponse1(f) ==
    /\ CallsEnabled
    /\ arg' = [fn |-> "interpret_response1", value |-> None, bits |-> BitsOfFrame(f)]
    /\ ret' = [NoRet EXCEPT !.info = interpret_response1(BitsOfFrame(f))]
    /\ UNCHANGED <<sdio, data, raised, printed, prev, call, emitted, sent, pos, now>>

BenchNext ==
    \/ \E f \in BusFrames : FrameTransmit(f)
    \/ FrameDecode
    \/ CallsEnabled /\ \E x \in 0..255 : CallCodec(x)
    \/ CallsEnabled /\ \E f \in CommandFrames : CallInterpretCommand(f)
    \/ CallsEnabled /\ \E flags \in 0..8191 : \E state \in BenchStates :
                           CallInterpretResponse1(StatusFrame(flags, state))

BenchSpec == Init /\ [][BenchNext]_vars

--------------------------------------------------------------------------
(* The claims.  prev, call, sdio, data and printed describe the last       *)
(* add_byte call: the decoder before it, its arguments, the decoder after  *)
(* it, what it returned and the frame bits it printed.                     *)

\* add_byte has been called.
Called == call # NoCall

\* The description of the k-th data block of a transfer.
DataBlockInfo(k) == <<Piece("DATA BLOCK %d", k)>>

IsDataBlock(frame) == Len(frame.info) = 1 /\ frame.info[1][1] = "DATA BLOCK %d"

\* C1: add_byte never fails: whatever bytes a freshly constructed decoder is
\* fed, no call ends in an exception or a failed assertion.
C1_NeverFails == ~raised

\* Frame e is a CMD53 command in block mode with block count n, completed by
\* the last byte of its burst.
IsBlockCommand(e, n) ==
    /\ e.info[1] = Lit("IO_RW_EXTENDED")
    /\ \E i \in 1..Len(e.info) - 1 :
           e.info[i] = Lit(", BlockMode:") /\ e.info[i + 1] = Piece(" %d blocks", n)
    /\ e.pos = Len(Wire[sent[e.burst]])

\* The bursts after burst k so far are n complete block sequences.
BlocksFedAfter(k, n) ==
    /\ Len(sent) = k + n
    /\ \A j \in k + 1..k + n : sent[j] = "BLOCK"
    /\ BurstDone

\* The descriptions of the frames returned during the bursts after burst k.
RECURSIVE InfosAfter(_, _)
InfosAfter(frames, k) ==
    IF frames = <<>> THEN <<>>
    ELSE (IF Head(frames).burst > k THEN <<Head(frames).info>> ELSE <<>>)
         \o InfosAfter(Tail(frames), k)

\* C2: after a CMD53 command in block mode with block count n, exactly n
\* complete block sequences make add_byte return exactly the frames DATA
\* BLOCK 1 .. DATA BLOCK n in that order and leave the decoder in normal
\* framing, where a following 0xFF byte returns nothing and changes nothing.
C2_BlocksThenIdle ==
    \A x \in 1..Len(emitted) : \A n \in 0..2 :
        IsBlockCommand(emitted[x], n) =>
            /\ BlocksFedAfter(emitted[x].burst, n) =>
                  /\ InfosAfter(emitted, emitted[x].burst) = [k \in 1..n |-> DataBlockInfo(k)]
                  /\ sdio.cdm53_skip_next_bytes = 0
            /\ ( /\ Len(sent) = emitted[x].burst + n + 1
                 /\ \A j \in emitted[x].burst + 1..emitted[x].burst + n : sent[j] = "BLOCK"
                 /\ sent[Len(sent)] = "IDLE"
                 /\ BurstDone ) =>
                  /\ data = NoData
                  /\ sdio = prev
                  /\ sdio.cdm53_skip_next_bytes = 0

\* C3: a 0xFF byte that arrives while the bit window is empty returns nothing
\* and leaves the whole decoder unchanged.
C3_IdleAbsorbed ==
    (Called /\ call.value = 255 /\ Falsy(prev.command_bits)) =>
        (data = NoData /\ sdio = prev)

\* C3 as amended: a 0xFF byte that arrives while the bit window is empty and
\* the decoder is not consuming the payload of a CMD53 block (no transfer is
\* active, or the block's start token has not been seen) returns nothing and
\* leaves the whole decoder unchanged.
C3_IdleAbsorbedOutsidePayload ==
    ( /\ Called
      /\ call.value = 255
      /\ Falsy(prev.command_bits)
      /\ (prev.cdm53_skip_next_bytes = 0 \/ prev.cmd53_start_token_received = 0) ) =>
        (data = NoData /\ sdio = prev)

\* A 0xFF byte arrived while a frame had cleared the window and a transfer,
\* one block of it done, waited for the next start token: it was absorbed.
C3_Witness ==
    /\ Called
    /\ call.value = 255
    /\ prev.command_bits = NoBits
    /\ prev.cdm53_skip_next_bytes > 0
    /\ prev.cmd53_start_token_received = 0
    /\ prev.cmd53_blocks_received = 1
    /\ sdio = prev

\* C4: with well-formed timestamps, the start times of the frames add_byte
\* returns never decrease from one frame to the next.
C4_StartsMonotonic ==
    \A i \in 1..Len(emitted) : \A j \in 1..Len(emitted) :
        i < j => emitted[i].start_time <= emitted[j].start_time

\* C5: with well-formed timestamps, every frame add_byte returns starts
\* strictly before it ends.
C5_StartBeforeEnd ==
    \A i \in 1..Len(emitted) : emitted[i].start_time < emitted[i].end_time

\* A frame whose start was recomputed from a remainder and whose end was
\* walked back has been returned, after a data block.
C5_Witness ==
    /\ Called
    /\ data # NoData
    /\ ~IsDataBlock(data)
    /\ data.end_time < call.end_time
    /\ data.start_time # prev.first_time
    /\ \E i \in 1..Len(emitted) : IsDataBlock(emitted[i])

\* C6: between add_byte calls the bit window holds at least 0 and at most
\* expected_response_length - 1 bits.
C6_WindowBelowExpected ==
    /\ BitCount(sdio.command_bits) >= 0
    /\ BitCount(sdio.command_bits) <= sdio.expected_response_length - 1

\* C7: a call that starts with cdm53_skip_next_bytes > 0 leaves the bit
\* window, the frame's start time and the expected response kind and length
\* unchanged, whatever the byte.
C7_PayloadBypassesWindow ==
    (Called /\ prev.cdm53_skip_next_bytes > 0) =>
        /\ sdio.command_bits = prev.command_bits
        /\ sdio.command_start = prev.command_start
        /\ sdio.expected_response = prev.expected_response
        /\ sdio.expected_response_length = prev.expected_response_length

\* A payload byte 0x00 arrived while the window held the bits of a frame.
C7_Witness ==
    /\ Called
    /\ prev.cdm53_skip_next_bytes > 0
    /\ ~Falsy(prev.command_bits)
    /\ call.value = 0

\* C8: in a CMD53 transfer, a call that completes a block (it returns the
\* block's frame) decreases cmd53_blocks_pending by exactly 1 and clears the
\* transfer (cdm53_skip_next_bytes = 0, start-token flag 0) exactly when
\* cmd53_blocks_pending is then 0; any other call of the transfer leaves
\* cmd53_blocks_pending alone and the transfer active.
C8_PendingCountsBlocks ==
    (Called /\ prev.cdm53_skip_next_bytes > 0) =>
        IF data # NoData
        THEN /\ sdio.cmd53_blocks_pending = prev.cmd53_blocks_pending - 1
             /\ (sdio.cdm53_skip_next_bytes = 0 /\ sdio.cmd53_start_token_received = 0)
                    <=> sdio.cmd53_blocks_pending = 0
        ELSE /\ sdio.cmd53_blocks_pending = prev.cmd53_blocks_pending
             /\ sdio.cdm53_skip_next_bytes > 0

\* The second block of a two-block transfer was completed and cleared the
\* transfer.
C8_Witness ==
    /\ Called
    /\ prev.cdm53_skip_next_bytes > 0
    /\ data.info = DataBlockInfo(2)
    /\ prev.cmd53_blocks_pending = 1
    /\ sdio.cmd53_blocks_pending = 0
    /\ sdio.cdm53_skip_next_bytes = 0

\* C9: expected_response_length is 48 or 136, and it is 136 exactly when
\* expected_response is kind 2.
C9_ExpectedLength ==
    /\ sdio.expected_response_length \in {48, 136}
    /\ sdio.expected_response_length = 136 <=> sdio.expected_response = 2

\* A command with a kind-2 response was decoded.
C9_Witness ==
    /\ Called
    /\ data # NoData
    /\ sdio.expected_response = 2
    /\ sdio.expected_response_length = 136
    /\ prev.expected_response_length = 48

\* C10: the description of a 48-bit kind-1 response whose start bit is not
\* 0, whose transmission bit is not 0 or whose end bit is not 1 contains
\* "ERROR".
C10_BadFramingSaysError ==
    ( /\ Called
      /\ data # NoData
      /\ Len(printed) = 48
      /\ printed[2] = 0
      /\ prev.expected_response \in {1, None}
      /\ (printed[1] # 0 \/ printed[2] # 0 \/ printed[48] # 1) ) =>
        ContainsERROR(data.info)

--------------------------------------------------------------------------
(* The claims about the bench (BenchSpec).  arg and ret describe the     *)
(* function called on its own.                                             *)

\* The command index of a frame.
IndexOf(bits) == value_from_bits(Slice(bits, 2, 8))

\* The response kind the table gives an index, None without one.
TableKind(index) ==
    IF index \in DOMAIN COMMAND_INFO THEN COMMAND_INFO[index][2] ELSE None

\* The frame satisfies start = 0, transmit = 1, end = 1.
ValidCommand(bits) == bits[1] = 0 /\ bits[2] = 1 /\ bits[48] = 1

\* The description ends with the ", ERROR" marker.
EndsWithERROR(info) == info # <<>> /\ info[Len(info)] = Lit(", ERROR")

\* C11: the description of a 48-bit command frame, whatever its index, ends
\* with ", ERROR" exactly when the frame violates start = 0, transmit = 1,
\* end = 1; add_byte still returns the frame and sets the expected response
\* from the table entry of the command's index.
C11_CommandErrorMarker ==
    /\ arg.fn = "interpret_command" =>
          /\ ~ret.raised
          /\ EndsWithERROR(ret.info) <=> ~ValidCommand(arg.bits)
    /\ (Called /\ Len(printed) = 48 /\ printed[2] = 1) =>
          /\ ~raised
          /\ data # NoData
          /\ EndsWithERROR(data.info) <=> ~ValidCommand(printed)
          /\ sdio.expected_response = TableKind(IndexOf(printed))

\* add_byte returned a CMD53 command whose end bit is 0, marked ", ERROR".
C11_Witness ==
    /\ Called
    /\ Len(printed) = 48
    /\ printed[2] = 1
    /\ printed[48] = 0
    /\ IndexOf(printed) = 53
    /\ EndsWithERROR(data.info)
    /\ sdio.expected_response = 5

\* The first frame of the bus is a well-formed 48-bit command whose index is
\* neither 52 nor 53, and the bus has carried no other.
FirstIsPlainCommand ==
    /\ Len(sent) = 1
    /\ sent[1].length = 48
    /\ sent[1].start_bit = 0
    /\ sent[1].transmission_bit = 1
    /\ sent[1].end_bit = 1
    /\ sent[1].index \notin {52, 53}

\* "<NAME> (CMD<i>), arg:<a>", or "CMD<i>, arg:<a>" for an index missing
\* from the table.
PlainCommandInfo(f) ==
    (IF f.index \in DOMAIN COMMAND_INFO
     THEN <<Lit(COMMAND_INFO[f.index][1]), Piece(" (CMD%d)", f.index)>>
     ELSE <<Piece("CMD%d", f.index)>>)
    \o <<Piece(", arg:%d", f.argument)>>

\* C12: the 6 bytes of a byte-aligned well-formed command frame (index not
\* 52 or 53) fed to a fresh decoder return nothing for bytes 1..5 and, on
\* byte 6, one frame described "<NAME> (CMD<i>), arg:<a>" without "ERROR",
\* from the first byte's start_time to the sixth byte's end_time, and leave
\* the bit window empty.
C12_AlignedCommand ==
    FirstIsPlainCommand =>
        /\ pos \in 1..5 => (data = NoData /\ emitted = <<>>)
        /\ pos = 6 =>
              /\ data = [start_time |-> FrameGap,
                         end_time |-> FrameGap + 6 * ByteTime,
                         info |-> PlainCommandInfo(sent[1])]
              /\ data.end_time = call.end_time
              /\ ~ContainsERROR(data.info)
              /\ Len(emitted) = 1
              /\ BitCount(sdio.command_bits) = 0
              /\ Falsy(sdio.command_bits)

\* The sixth byte of a command missing from the table, with an argument past
\* 2^31 and a crc7 of 127, returned its frame.
C12_Witness ==
    /\ FirstIsPlainCommand
    /\ pos = 6
    /\ sent[1].index = 60
    /\ sent[1].argument = <<65535, 65535>>
    /\ sent[1].crc7 = 127
    /\ data.info = <<Piece("CMD%d", 60), Piece(", arg:%d", <<65535, 65535>>)>>
    /\ data.start_time = 15
    /\ data.end_time = 105

\* The last add_byte call completed a frame whose bit 1 is t.
Completed(t) == Called /\ printed # <<>> /\ printed[2] = t

\* C13: a completed frame whose bit 1 is 0 is rendered by the response kind
\* expected when it completed: kind 1 or none gives the 48-bit kind-1
\* rendering, kind 2 the 136-bit "R2, CID or CSD", kind 3 the OCR rendering,
\* kind 5 "R5" and any other kind (4) the label "R4"; a command whose index
\* is missing from the table leaves the expected length 48.
C13_ResponseByExpectedKind ==
    /\ Completed(0) =>
          /\ ~raised
          /\ data # NoData
          /\ CASE prev.expected_response \in {1, None} ->
                    /\ Len(printed) = 48
                    /\ Len(data.info) >= 2
                    /\ data.info[1] = Lit("R1, ")
               [] prev.expected_response = 2 ->
                    /\ Len(printed) = 136
                    /\ data.info = <<Lit("R2, CID or CSD")>>
               [] prev.expected_response = 3 ->
                    /\ Len(printed) = 48
                    /\ data.info = <<Lit("R3, "),
                                     Lit(IF printed[9] = 1 THEN "READY" ELSE "BUSY")>>
               [] prev.expected_response = 5 ->
                    /\ Len(printed) = 48
                    /\ data.info = <<Lit("R5")>>
               [] OTHER ->
                    /\ prev.expected_response = 4
                    /\ Len(printed) = 48
                    /\ data.info = <<Piece("R%s", 4)>>
    /\ (Completed(1) /\ ~raised /\ IndexOf(printed) \notin DOMAIN COMMAND_INFO) =>
          /\ sdio.expected_response = None
          /\ sdio.expected_response_length = 48

\* The response to CMD39 (kind 4) was returned under the label "R4".
C13_Witness ==
    /\ Completed(0)
    /\ Len(emitted) = 2
    /\ emitted[1].info[1] = Lit("FAST_IO")
    /\ prev.expected_response = 4
    /\ data.info = <<Piece("R%s", 4)>>

--------------------------------------------------------------------------
(* Further claims about the bus of bursts (Spec). *)

\* The bits the last call's frame left in the window: what the window held
\* before the call and the bits of the call's byte, less the frame.
Remainder ==
    LET window == prev.command_bits \o bits_from_byte(call.value)
    IN  SubSeq(window, Len(printed) + 1, Len(window))

\* A sequence of bits from its first 0 on.
FromFirstZero(bits) ==
    LET z == CHOOSE i \in 1..Len(bits) :
                 bits[i] = 0 /\ \A j \in 1..i - 1 : bits[j] = 1
    IN  SubSeq(bits, z, Len(bits))

\* C14: when a completed frame leaves bits that hold a 0, they are kept from
\* their first 0 on as the start of the next frame, which starts at the
\* byte's end_time minus (bits kept - 0.5) x (end_time - start_time) / 7.5;
\* when it leaves no bits or only 1s the window is cleared.
C14_RemainderKept ==
    (Called /\ printed # <<>> /\ ~raised) =>
        IF \E i \in 1..Len(Remainder) : Remainder[i] = 0
        THEN /\ sdio.command_bits = FromFirstZero(Remainder)
             /\ 15 * (call.end_time - sdio.command_start)
                    = (2 * Len(sdio.command_bits) - 1) * (call.end_time - call.start_time)
        ELSE /\ sdio.command_bits = NoBits
             /\ BitCount(sdio.command_bits) = 0

\* A frame left the bits 1, 0, 0, 1: the window keeps 0, 0, 1 and the next
\* frame starts 2.5 bits before the end of the byte.
C14_Witness ==
    /\ Called
    /\ data # NoData
    /\ Remainder = <<1, 0, 0, 1>>
    /\ sdio.command_bits = <<0, 0, 1>>
    /\ call.end_time - call.start_time = 15
    /\ sdio.command_start = call.end_time - 5

--------------------------------------------------------------------------
(* Further claims about the bench (BenchSpec). *)

\* C15: value_from_bits(bits_from_byte(x)) = x for every x in 0..255, where
\* bits_from_byte(x) is 8 bits, bit i (0 the first) set exactly when
\* x & (1 << (7 - i)) is not 0.
C15_CodecRoundTrip ==
    arg.fn = "value_from_bits(bits_from_byte)" =>
        /\ ret.value = arg.value
        /\ Len(ret.bits) = 8
        /\ \A i \in 0..7 :
               /\ ret.bits[i + 1] \in {0, 1}
               /\ ret.bits[i + 1] = 1 <=> (arg.value \div 2^(7 - i)) % 2 = 1

\* The byte 0xA5 went through the codec.
C15_Witness ==
    /\ arg.fn = "value_from_bits(bits_from_byte)"
    /\ arg.value = 165
    /\ ret.bits = <<1, 0, 1, 0, 0, 1, 0, 1>>
    /\ ret.value = 165

\* The 13 status flags in their fixed order, each preceded by a space.
FlagNames ==
    <<" ADDRESS_OUT_OF_RANGE", " ADDRESS_MISALIGN", " BLOCK_LEN_ERROR",
      " ERASE_EQ_ERROR", " ERASE_PARAM", " WP_VIOLATION", " DEVICE_IS_LOCKED",
      " LOCK_UNLOCK_FAILED", " COM_CRC_ERROR", " ILLEGAL_COMMAND",
      " DEVICE_ECC_FAILED", " CC_ERROR", " ERROR">>

\* The flags set in a 48-bit response: flag i (1 the first) is status bit
\* i - 1, the status field starting at bit 8 of the frame.
FlagsSet(bits) == {i \in 1..13 : bits[8 + i] = 1}

\* The k-th smallest element of a set of numbers.
Nth(S, k) == CHOOSE i \in S : Cardinality({j \in S : j < i}) = k - 1

\* The description is "R1, ", one piece for the state, and then exactly the
\* names of the flags set in the frame, in the fixed order.
FlagsListed(bits, info) ==
    /\ Len(info) = 2 + Cardinality(FlagsSet(bits))
    /\ info[1] = Lit("R1, ")
    /\ info[2][1] \in {CURRENT_STATE[s] : s \in DOMAIN CURRENT_STATE} \cup {"UNKNOWN (%d)"}
    /\ \A k \in 1..Cardinality(FlagsSet(bits)) :
           info[2 + k] = Lit(FlagNames[Nth(FlagsSet(bits), k)])

\* C16: the description of a 48-bit kind-1 response lists, after the state
\* name, exactly the names of the status flags that are set (status bits
\* 0..12), in the fixed order, each preceded by a space.
C16_FlagsInOrder ==
    /\ arg.fn = "interpret_response1" => FlagsListed(arg.bits, ret.info)
    /\ (Completed(0) /\ prev.expected_response \in {1, None}) =>
           FlagsListed(printed, data.info)

\* interpret_response1 was called on a response with all 13 flags set and
\* listed the 13 names.
C16_Witness ==
    /\ arg.fn = "interpret_response1"
    /\ FlagsSet(arg.bits) = 1..13
    /\ Len(ret.info) = 15
    /\ ret.info[2] = Lit("TRANSFER")
    /\ ret.info[3] = Lit(" ADDRESS_OUT_OF_RANGE")
    /\ ret.info[14] = Lit(" CC_ERROR")
    /\ ret.info[15] = Lit(" ERROR")

\* C17: a call that returns a command frame with index i leaves the expected
\* response kind at the table entry of i (none without one) and the expected
\* length at 136 if that kind is 2 (indices 2, 9, 10) and at 48 otherwise; a
\* call that returns a response frame leaves them at none and 48; no other
\* call changes them; and a frame completes on the byte that brings the
\* window to the expected length.
C17_ExpectedFollowsFrames ==
    /\ \A i \in 0..63 : TableKind(i) = 2 <=> i \in {2, 9, 10}
    /\ Called =>
          /\ IF Completed(1) /\ data # NoData
             THEN /\ sdio.expected_response = TableKind(IndexOf(printed))
                  /\ sdio.expected_response_length
                        = (IF TableKind(IndexOf(printed)) = 2 THEN 136 ELSE 48)
             ELSE IF Completed(0) /\ data # NoData
             THEN /\ sdio.expected_response = None
                  /\ sdio.expected_response_length = 48
             ELSE /\ sdio.expected_response = prev.expected_response
                  /\ sdio.expected_response_length = prev.expected_response_length
          /\ printed # <<>> =>
                /\ Len(printed) = prev.expected_response_length
                /\ BitCount(prev.command_bits) < prev.expected_response_length
          /\ (prev.cdm53_skip_next_bytes = 0 /\ ~Falsy(prev.command_bits)) =>
                (printed # <<>>
                    <=> Len(prev.command_bits) + 8 >= prev.expected_response_length)

\* The 136-bit response to a command of kind 2 completed on its 17th byte
\* and reset the expected kind and length.
C17_Witness ==
    /\ Completed(0)
    /\ Len(printed) = 136
    /\ pos = 17
    /\ prev.expected_response = 2
    /\ prev.expected_response_length = 136
    /\ sdio.expected_response = None
    /\ sdio.expected_response_length = 48

--------------------------------------------------------------------------
(* Claims about the CMD53 transfer, on the bus of bursts (Spec). *)

\* The fields of the CMD53 transfer.
Cmd53Fields(self) ==
    <<self.cdm53_block_size_length, self.cdm53_skip_next_bytes,
      self.cmd53_blocks_pending, self.cmd53_start_token_received,
      self.cmd53_data_start, self.cmd53_blocks_received>>

\* The 9-bit count field of a CMD53 frame: the last 9 bits of its argument.
CountOf(bits) == value_from_bits(SubSeq(bits, 32, 40))

\* C18: a call that returns a command frame with index 53 starts a transfer
\* with cmd53_blocks_received = 0 and, if the block-mode bit is set,
\* cdm53_skip_next_bytes = 256 + 2 and cmd53_blocks_pending = the count
\* field, otherwise cdm53_skip_next_bytes = count + 2 and
\* cmd53_blocks_pending = 1; a command frame with any other index leaves
\* every field of the transfer unchanged.
C18_Cmd53StartsTransfer ==
    (Completed(1) /\ data # NoData) =>
        IF IndexOf(printed) = 53
        THEN /\ sdio.cmd53_blocks_received = 0
             /\ sdio.cdm53_block_size_length = 256
             /\ IF printed[13] = 1
                THEN /\ sdio.cdm53_skip_next_bytes = 256 + 2
                     /\ sdio.cmd53_blocks_pending = CountOf(printed)
                ELSE /\ sdio.cdm53_skip_next_bytes = CountOf(printed) + 2
                     /\ sdio.cmd53_blocks_pending = 1
        ELSE Cmd53Fields(sdio) = Cmd53Fields(prev)

\* A second CMD53 command, in block mode, was returned after a transfer of
\* two blocks and reset the number of blocks received.
C18_Witness ==
    /\ Completed(1)
    /\ data # NoData
    /\ IndexOf(printed) = 53
    /\ printed[13] = 1
    /\ prev.cmd53_blocks_received = 2
    /\ sdio.cmd53_blocks_received = 0
    /\ sdio.cdm53_skip_next_bytes = 258

\* The last call found a transfer active; token tells whether the start
\* token of the current block had been seen.
InTransfer(token) ==
    /\ Called
    /\ prev.cdm53_skip_next_bytes > 0
    /\ prev.cmd53_start_token_received = token

\* C19: while a transfer is active and the start token of the block has not
\* been seen, a byte other than 0xFC and 0xFD returns nothing and leaves the
\* whole decoder unchanged; a byte 0xFC or 0xFD returns nothing, sets the
\* start-token flag and records cmd53_data_start = the byte's end_time, and
\* changes nothing else (cdm53_skip_next_bytes is not decremented).
C19_WaitForStartToken ==
    InTransfer(0) =>
        /\ ~raised
        /\ data = NoData
        /\ IF call.value \in {252, 253}
           THEN /\ sdio.cmd53_start_token_received = 1
                /\ sdio.cmd53_data_start = call.end_time
                /\ sdio.cdm53_skip_next_bytes = prev.cdm53_skip_next_bytes
                /\ sdio = [prev EXCEPT !.cmd53_start_token_received = 1,
                                       !.cmd53_data_start = call.end_time]
           ELSE sdio = prev

\* The transfer waited for the start token of its second block, swallowed
\* the bytes of a response, and then saw the token 0xFD.
C19_Witness ==
    /\ InTransfer(0)
    /\ call.value = 253
    /\ prev.cmd53_blocks_received = 1
    /\ \E j \in 2..Len(sent) - 1 : sent[j] = "R1_BAD_END" /\ sent[j - 1] = "BLOCK"
    /\ sent[Len(sent)] = "SHORT_DATA"
    /\ sdio.cmd53_start_token_received = 1
    /\ sdio.cmd53_data_start = call.end_time
    /\ sdio.cdm53_skip_next_bytes = 258

\* The frame is a CMD53 command.
IsCmd53(frame) == frame.info[1] = Lit("IO_RW_EXTENDED")

\* The place in emitted of the last CMD53 command returned, 0 if none.
LastCmd53 ==
    IF \E i \in 1..Len(emitted) : IsCmd53(emitted[i])
    THEN CHOOSE i \in 1..Len(emitted) :
             IsCmd53(emitted[i]) /\ \A j \in i + 1..Len(emitted) : ~IsCmd53(emitted[j])
    ELSE 0

\* The bytes that follow the start token of a block of the transfer the
\* command frame started: 256 + 2 in block mode, count + 2 in byte mode.
BlockBytes(frame) ==
    IF \E i \in 1..Len(frame.info) : frame.info[i] = Lit(", BlockMode:")
    THEN 256 + 2
    ELSE LET i == CHOOSE i \in 1..Len(frame.info) : frame.info[i][1] = " %d bytes"
         IN  frame.info[i][2] + 2

\* The data-block frames returned since the last CMD53 command.
BlocksCompleted ==
    Cardinality({i \in LastCmd53 + 1..Len(emitted) : IsDataBlock(emitted[i])})

\* C20: once the start token of a block has been seen, exactly
\* cdm53_skip_next_bytes bytes are consumed for the block (256 + 2 in block
\* mode, count + 2 in byte mode): every byte but the last returns nothing,
\* and the last returns "DATA BLOCK k" from cmd53_data_start to the byte's
\* end_time, k the number of blocks completed so far in the transfer; if
\* blocks remain, the start-token flag is cleared and cdm53_skip_next_bytes
\* is reset to 256 + 2.
C20_BlockConsumed ==
    /\ (InTransfer(0) /\ call.value \in {252, 253}) =>
          /\ LastCmd53 > 0
          /\ sdio.cdm53_skip_next_bytes = BlockBytes(emitted[LastCmd53])
    /\ InTransfer(1) =>
          /\ ~raised
          /\ IF prev.cdm53_skip_next_bytes > 1
             THEN /\ data = NoData
                  /\ sdio = [prev EXCEPT !.cdm53_skip_next_bytes = @ - 1]
             ELSE /\ data = [start_time |-> prev.cmd53_data_start,
                             end_time |-> call.end_time,
                             info |-> DataBlockInfo(BlocksCompleted)]
                  /\ sdio.cmd53_blocks_received = BlocksCompleted
                  /\ sdio.cmd53_blocks_pending > 0 =>
                        /\ sdio.cmd53_start_token_received = 0
                        /\ sdio.cdm53_skip_next_bytes = prev.cdm53_block_size_length + 2
                  \* the token was the first byte of the burst: the frame
                  \* comes with the last of the bytes that follow it
                  /\ prev.cmd53_data_start
                        = call.end_time - (pos - 1) * BurstByteTime(sent[Len(sent)]) =>
                        pos - 1 = BlockBytes(emitted[LastCmd53])

\* The first block of a two-block transfer was completed by the 258th byte
\* after its start token; the transfer waits for the next token.
C20_Witness ==
    /\ InTransfer(1)
    /\ prev.cdm53_skip_next_bytes = 1
    /\ data.info = DataBlockInfo(1)
    /\ data.start_time = prev.cmd53_data_start
    /\ data.end_time = data.start_time + 258 * 15
    /\ pos = 259
    /\ sdio.cmd53_blocks_pending = 1
    /\ sdio.cmd53_start_token_received = 0
    /\ sdio.cdm53_skip_next_bytes = 258


\* The blocks the transfer started by the command frame is made of: the
\* count the command carries in block mode, one in byte mode.
BlocksCarried(frame) ==
    IF \E i \in 1..Len(frame.info) : frame.info[i] = Lit(", BlockMode:")
    THEN LET i == CHOOSE i \in 1..Len(frame.info) : frame.info[i][1] = " %d blocks"
         IN  frame.info[i][2]
    ELSE 1

\* C21: every CMD53 transfer terminates, whatever count the command carries
\* (0 included) and in either mode: cmd53_blocks_pending never becomes
\* negative, and once the bus has supplied as many blocks as the command
\* carries, the block just completed leaves payload mode
\* (cdm53_skip_next_bytes = 0), so that command/response framing resumes.
C21_TransferTerminates ==
    /\ sdio.cmd53_blocks_pending >= 0
    /\ (Called /\ IsDataBlock(data) /\ LastCmd53 > 0
           /\ BlocksCompleted >= BlocksCarried(emitted[LastCmd53])) =>
          /\ sdio.cdm53_skip_next_bytes = 0
          /\ sdio.cmd53_start_token_received = 0


\* C22: between calls a window that is not empty begins with a 0 bit,
\* because the leading 1 bits are dropped both when a frame starts and when
\* a remainder is kept; hence every frame add_byte decodes has start bit 0,
\* and the start-bit test of the interpreters never fails for it: a command
\* frame is marked ", ERROR" exactly when its end bit is 0.
C22_WindowStartsWithZero ==
    /\ ~Falsy(sdio.command_bits) => sdio.command_bits[1] = 0
    /\ (Called /\ printed # <<>>) =>
          /\ printed[1] = 0
          /\ printed[1] = prev.command_bits[1]
          /\ (~raised /\ printed[2] = 1) =>
                (EndsWithERROR(data.info) <=> printed[48] = 0)

\* A frame that began after four 1 bits of its first byte was decoded with
\* start bit 0 and left the bits 1, 0, 0, 1, of which the window keeps
\* 0, 0, 1.
C22_Witness ==
    /\ Called
    /\ printed # <<>>
    /\ printed[1] = 0
    /\ data # NoData
    /\ sent[Len(sent)] = "CMD53_BYTE_0_SHIFTED"
    /\ Len(Remainder) = 4
    /\ Remainder[1] = 1
    /\ sdio.command_bits = <<0, 0, 1>>

==========================================================================
